---- MODULE Spec2Model ----
(***************************************************************************)
(* Email-Job-tracker: the dashboard page (Home component), its two sync    *)
(* passes against the /api/gmail and /api/gmail/new route handlers, and    *)
(* the message classifier of the route handlers.                           *)
(*                                                                         *)
(* Spec      the page: React state of Home, localStorage, the poll timer   *)
(*           and the HTTP requests in flight.  What an endpoint answers is *)
(*           an input of the page (the page runs in the browser and sees   *)
(*           only the HTTP response).                                      *)
(* SpecRoute the route handlers: one request at a time, from the session   *)
(*           check to the response.                                        *)
(* SpecClassify  the classifier (extractEmailInfo of either route file)    *)
(*           as a function of one message and one AI reply.                *)
(* SpecMailbox   the page, the endpoints and the mailbox together: what an *)
(*           endpoint answers is what its list query found.                *)
(***************************************************************************)
EXTENDS Integers, Sequences, FiniteSets, TLC

\* ------------------------------------------------------------------------
\* Bounds
\* ------------------------------------------------------------------------
MaxId == 2          \* message ids are 1..MaxId
MaxBatch == 2       \* longest array an endpoint answers with
MaxTime == 3        \* Date.now() runs over 1..MaxTime
MaxInFlight == 2    \* HTTP requests of the page awaiting their response

Ids == 1..MaxId

\* ------------------------------------------------------------------------
\* Records as the page sees them (JobEmail).  The page reads only id when
\* it syncs; applicationStatus stands for the rest of the record's content.
\* ------------------------------------------------------------------------
PageStatuses == {"Applied", "Interview"}

JobEmail == [id : Ids, applicationStatus : PageStatuses]

RECURSIVE SeqsUpTo(_, _)
SeqsUpTo(S, n) ==
    IF n = 0 THEN {<<>>}
    ELSE LET shorter == SeqsUpTo(S, n - 1)
         IN  shorter \cup {Append(s, x) : s \in {t \in shorter : Len(t) = n - 1}, x \in S}

IdsOf(list) == {list[i].id : i \in 1..Len(list)}

DistinctIds(list) == \A i, j \in 1..Len(list) : list[i].id = list[j].id => i = j

\* An array an endpoint can answer with.
Batches == SeqsUpTo(JobEmail, MaxBatch)

\* GET /api/gmail maps the provider's message list one to one, and the
\* provider lists a message once.
FullBatches == {b \in Batches : DistinctIds(b)}

NoValue == "null"

\* What the page gets for a request: the array of a 200 answer, or the way
\* the request failed (401, 500, or fetch itself rejecting).
Failures == {"http401", "http500", "network"}

Ok(data) == [ok |-> TRUE, data |-> data, why |-> NoValue]

Failed(why) == [ok |-> FALSE, data |-> <<>>, why |-> why]

FullResponses == {Ok(b) : b \in FullBatches} \cup {Failed(w) : w \in Failures}

IncrementalResponses == {Ok(b) : b \in Batches} \cup {Failed(w) : w \in Failures}

\* localStorage.getItem('jobEmails'): unset, or the list last written
Unset == [set |-> FALSE, value |-> <<>>]

Stored(emails) == [set |-> TRUE, value |-> emails]

\* ------------------------------------------------------------------------
\* State of the page
\* ------------------------------------------------------------------------
VARIABLES
    session,          \* useSession().data is set
    jobEmails,        \* useState<JobEmail[]>([])
    loading,          \* useState(false)
    initialLoading,   \* useState(true)
    lastFetchTime,    \* useState<number>(0)
    error,            \* useState<string | null>(null)
    localStorage,     \* localStorage['jobEmails']
    now,              \* Date.now()
    inFlight,         \* requests sent whose continuation has not run yet
    tickLoading,      \* `loading` in the checkNewEmails the interval holds
    tickLastFetchTime,\* `lastFetchTime` in the checkNewEmails the interval holds
    last,             \* what the last step did (observation only)
    \* State of a route handler serving one request
    rpc,              \* "idle", "listing", "fetching" or "responded"
    request,          \* the request being served
    messages,         \* response.data.messages of the list call
    results,          \* per listed message: the outcome of its map callback
    response,         \* the NextResponse returned
    calls,            \* provider and AI calls issued for this request
    \* The classifier applied to one message
    classified,       \* the message and the AI reply, then the outcome
    \* The mailbox behind the endpoints
    mailbox,          \* the keyword-matching messages, each with its arrival time
    listed            \* per request in flight: what users.messages.list answered

pageVars == <<session, jobEmails, loading, initialLoading, lastFetchTime, error,
              localStorage, now, inFlight, tickLoading, tickLastFetchTime, last>>

routeVars == <<rpc, request, messages, results, response, calls>>

mailVars == <<mailbox, listed>>

vars == <<pageVars, routeVars, classified, mailVars>>

notPageVars == <<routeVars, classified>>

notRouteVars == <<pageVars, classified, mailVars>>

NoStep == [op |-> "none"]

\* new Map(entries): a key keeps the position of its first entry and the
\* value of its last entry; values() walks the keys in that order.
RECURSIVE MapKeys(_)
MapKeys(list) ==
    IF list = <<>> THEN <<>>
    ELSE LET init == SubSeq(list, 1, Len(list) - 1)
             k == list[Len(list)].id
         IN  IF k \in IdsOf(init) THEN MapKeys(init) ELSE Append(MapKeys(init), k)

LastIndexOf(list, k) ==
    CHOOSE i \in 1..Len(list) :
        /\ list[i].id = k
        /\ \A j \in (i + 1)..Len(list) : list[j].id # k

MapValues(list) ==
    LET keys == MapKeys(list)
    IN  [n \in 1..Len(keys) |-> list[LastIndexOf(list, keys[n])]]

\* mutant: the batch replaces the list instead of being merged into it
mergeReplacing(newEmails, prev) == MapValues(newEmails)

\* mutant: the arrays are concatenated and never deduplicated
mergeNoDedup(newEmails, prev) == newEmails \o prev

\* updateEmailsWithNewData, the updater handed to setJobEmails
merge(newEmails, prev) ==
    LET combined == newEmails \o prev
    IN  MapValues(combined)

\* The persistence effect on [jobEmails]
persist(emails) ==
    IF Len(emails) > 0 THEN Stored(emails) ELSE localStorage

InitPage ==
    /\ session = FALSE
    /\ jobEmails = <<>>
    /\ loading = FALSE
    /\ initialLoading = TRUE
    /\ lastFetchTime = 0
    /\ error = NoValue
    /\ localStorage = Unset
    /\ now = 1
    /\ inFlight = <<>>
    /\ tickLoading = FALSE
    /\ tickLastFetchTime = 0
    /\ last = NoStep

InitRoute ==
    /\ rpc = "idle"
    /\ request = [endpoint |-> "none", accessToken |-> FALSE, lastFetchTime |-> 0]
    /\ messages = <<>>
    /\ results = <<>>
    /\ response = [status |-> 0, body |-> <<>>, error |-> NoValue]
    /\ calls = [list |-> 0, get |-> 0, ai |-> 0]

NotClassifying == [state |-> "none"]

InitMail ==
    /\ mailbox = {}
    /\ listed = <<>>

Init ==
    /\ InitPage
    /\ InitRoute
    /\ classified = NotClassifying
    /\ InitMail

\* Date.now()
Date_now == now

\* mutant: the full sync leaves lastFetchTime alone
fetchEmailsTimeStale(t) == lastFetchTime

\* fetchEmails, line 186: setLastFetchTime(Date.now())
fetchEmailsTime(t) == t

\* mutant: the full sync merges into the previous list
fetchEmailsDataMerged(data, prev) == merge(data, prev)

\* fetchEmails, line 185: setJobEmails(data)
fetchEmailsData(data, prev) == data

\* mutant: a failed pass clears the list
onErrorCleared(prev) == <<>>

\* the catch blocks of fetchEmails and checkNewEmails set error only
onError(prev) == prev

\* The interval effect on [session, lastFetchTime]: when either changed, the
\* interval is set again with the checkNewEmails of that render.
IntervalEffect ==
    IF session' # session \/ lastFetchTime' # lastFetchTime
    THEN /\ tickLoading' = loading'
         /\ tickLastFetchTime' = lastFetchTime'
    ELSE UNCHANGED <<tickLoading, tickLastFetchTime>>

Request(kind, init, body) == [kind |-> kind, init |-> init, lastFetchTime |-> body]

Remove(seq, i) == SubSeq(seq, 1, i - 1) \o SubSeq(seq, i + 1, Len(seq))

\* The message the catch block stores
ErrorMessage(kind, resp) ==
    IF resp.why = "network" THEN "Failed to fetch"
    ELSE IF kind = "incremental" THEN "Failed to fetch new emails"
    ELSE IF resp.why = "http401" THEN "Not authenticated"
    ELSE "Failed to fetch emails"

\* mutant: the stored list is not read at start
loadSavedEmailsSkipped(stored, current) == current

\* loadSavedEmails: the stored list when there is one
loadSavedEmails(stored, current) ==
    IF stored.set THEN stored.value ELSE current

\* The session arrives: the initialize effect runs loadSavedEmails and then
\* fetchEmails up to its fetch; the interval effect sets the poll timer.
SignIn ==
    /\ ~session
    /\ session' = TRUE
    /\ initialLoading' = TRUE
    /\ jobEmails' = loadSavedEmails(localStorage, jobEmails)
    /\ loading' = TRUE
    /\ error' = NoValue
    /\ inFlight' = Append(inFlight, Request("full", TRUE, 0))
    /\ tickLoading' = loading
    /\ tickLastFetchTime' = lastFetchTime
    /\ localStorage' = persist(jobEmails')
    /\ last' = [op |-> "initialize", prevEmails |-> jobEmails]
    /\ UNCHANGED <<lastFetchTime, now>>
    /\ UNCHANGED notPageVars

\* The Refresh button (rendered once initialLoading is false, disabled while
\* loading): fetchEmails up to its fetch.
Refresh ==
    /\ session /\ ~initialLoading /\ ~loading
    /\ Len(inFlight) < MaxInFlight
    /\ loading' = TRUE
    /\ error' = NoValue
    /\ inFlight' = Append(inFlight, Request("full", FALSE, 0))
    /\ last' = [op |-> "refresh"]
    /\ UNCHANGED <<session, jobEmails, initialLoading, lastFetchTime, localStorage,
                   now, tickLoading, tickLastFetchTime>>
    /\ UNCHANGED notPageVars

\* fetchEmails from the response on: resp is the array of a 200 answer, or
\* the way the request failed.
FetchEmailsDone(i, resp) ==
    /\ inFlight[i].kind = "full"
    /\ inFlight' = Remove(inFlight, i)
    /\ IF ~resp.ok
       THEN /\ jobEmails' = onError(jobEmails)
            /\ error' = ErrorMessage("full", resp)
            /\ UNCHANGED lastFetchTime
       ELSE /\ jobEmails' = fetchEmailsData(resp.data, jobEmails)
            /\ lastFetchTime' = fetchEmailsTime(Date_now)
            /\ UNCHANGED error
    /\ loading' = FALSE
    /\ initialLoading' = IF inFlight[i].init THEN FALSE ELSE initialLoading
    /\ localStorage' = persist(jobEmails')
    /\ UNCHANGED <<session, now>>
    /\ IntervalEffect
    /\ last' = [op |-> "fetchEmails", resp |-> resp, prevEmails |-> jobEmails,
                prevTime |-> lastFetchTime, at |-> now]
    /\ UNCHANGED notPageVars

\* The poll timer fires: checkNewEmails as the interval holds it, up to its
\* fetch.
PollTick ==
    /\ session
    /\ IF tickLoading
       THEN /\ last' = [op |-> "pollSkipped"]
            /\ UNCHANGED inFlight
       ELSE /\ Len(inFlight) < MaxInFlight
            /\ inFlight' = Append(inFlight, Request("incremental", FALSE, tickLastFetchTime))
            /\ last' = [op |-> "poll"]
    /\ UNCHANGED <<session, jobEmails, loading, initialLoading, lastFetchTime, error,
                   localStorage, now, tickLoading, tickLastFetchTime>>
    /\ UNCHANGED notPageVars

\* checkNewEmails from the response on.
CheckNewEmailsDone(i, resp) ==
    /\ inFlight[i].kind = "incremental"
    /\ inFlight' = Remove(inFlight, i)
    /\ IF ~resp.ok
       THEN /\ jobEmails' = onError(jobEmails)
            /\ error' = ErrorMessage("incremental", resp)
            /\ UNCHANGED lastFetchTime
       ELSE IF Len(resp.data) > 0
       THEN /\ jobEmails' = merge(resp.data, jobEmails)
            /\ lastFetchTime' = Date_now
            /\ UNCHANGED error
       ELSE UNCHANGED <<jobEmails, lastFetchTime, error>>
    /\ localStorage' = persist(jobEmails')
    /\ UNCHANGED <<session, loading, initialLoading, now>>
    /\ IntervalEffect
    /\ last' = [op |-> "checkNewEmails", resp |-> resp, prevEmails |-> jobEmails,
                prevTime |-> lastFetchTime, at |-> now]
    /\ UNCHANGED notPageVars

\* Time passes.
Tick ==
    /\ now < MaxTime
    /\ now' = now + 1
    /\ last' = [op |-> "tick"]
    /\ UNCHANGED <<session, jobEmails, loading, initialLoading, lastFetchTime, error,
                   localStorage, inFlight, tickLoading, tickLastFetchTime>>
    /\ UNCHANGED notPageVars

\* The page is loaded anew: the component state starts over, localStorage
\* stays, the continuations of the requests in flight never run.
Reload ==
    /\ session
    /\ session' = FALSE
    /\ jobEmails' = <<>>
    /\ loading' = FALSE
    /\ initialLoading' = TRUE
    /\ lastFetchTime' = 0
    /\ error' = NoValue
    /\ inFlight' = <<>>
    /\ tickLoading' = FALSE
    /\ tickLastFetchTime' = 0
    /\ last' = [op |-> "reload"]
    /\ UNCHANGED <<localStorage, now>>
    /\ UNCHANGED notPageVars

Next ==
    \/ SignIn /\ UNCHANGED mailVars
    \/ Refresh /\ UNCHANGED mailVars
    \/ \E i \in 1..Len(inFlight), resp \in FullResponses :
           FetchEmailsDone(i, resp) /\ UNCHANGED mailVars
    \/ PollTick /\ UNCHANGED mailVars
    \/ \E i \in 1..Len(inFlight), resp \in IncrementalResponses :
           CheckNewEmailsDone(i, resp) /\ UNCHANGED mailVars
    \/ Tick /\ UNCHANGED mailVars
    \/ Reload /\ UNCHANGED mailVars

Spec == Init /\ [][Next]_vars

\* ------------------------------------------------------------------------
\* Properties of the page (checked under Spec)
\* ------------------------------------------------------------------------
FullDone == last.op = "fetchEmails"

IncrementalDone == last.op = "checkNewEmails"

PassSucceeded == (FullDone \/ IncrementalDone) /\ last.resp.ok

PassFailed == (FullDone \/ IncrementalDone) /\ ~last.resp.ok

Merged == IncrementalDone /\ last.resp.ok /\ Len(last.resp.data) > 0

RecordsOf(list, id) == {list[i] : i \in {j \in 1..Len(list) : list[j].id = id}}

\* C1 (as claimed): after a merge, an id that the batch returned and that was
\* already in the list maps to a record of the batch, not to the stored one.
C1_MergeOverride ==
    Merged =>
        \A id \in IdsOf(last.resp.data) \cap IdsOf(last.prevEmails) :
            RecordsOf(jobEmails, id) \subseteq RecordsOf(last.resp.data, id)

C3_FailedPassAtomic ==
    PassFailed => /\ jobEmails = last.prevEmails
                  /\ lastFetchTime = last.prevTime

C3_Witness ==
    /\ PassFailed
    /\ last.resp.why = "http500"
    /\ Len(jobEmails) > 0
    /\ lastFetchTime > 0
    /\ now > lastFetchTime

C8_FullSyncReplaces ==
    (FullDone /\ last.resp.ok) => jobEmails = last.resp.data

C8_Witness ==
    /\ FullDone /\ last.resp.ok
    /\ IdsOf(last.prevEmails) \ IdsOf(last.resp.data) # {}
    /\ Len(last.resp.data) > 0
    /\ jobEmails = last.resp.data

\* C11 (as claimed): at most one sync pass, full or incremental, is in flight
\* at any time; a poll tick during a pass is skipped and no full sync starts
\* during an incremental pass.
C11_NoOverlappingPasses ==
    Len(inFlight) <= 1

Started == last.op = "initialize"

FullInFlight == \E i \in 1..Len(inFlight) : inFlight[i].kind = "full"

\* C16 (as claimed): a start that finds a stored list takes the list and the
\* watermark of the earlier run (which stored the list after a pass that set
\* the watermark, so it is past 0) and issues no full sync.
C16_SeededStart ==
    (Started /\ localStorage.set) =>
        /\ jobEmails = localStorage.value
        /\ lastFetchTime > 0
        /\ ~FullInFlight

\* C16 (amended): a start that finds a stored list takes the list; the
\* watermark starts at 0, whatever the earlier run reached, and the start
\* always issues a full sync and nothing else.
C16_StartLoadsAndFullSyncs ==
    Started =>
        /\ localStorage.set => jobEmails = localStorage.value
        /\ lastFetchTime = 0
        /\ Len(inFlight) = 1
        /\ inFlight[1].kind = "full"

C16_Witness ==
    /\ Started
    /\ localStorage.set
    /\ Len(jobEmails) > 0
    /\ jobEmails = localStorage.value
    /\ FullInFlight
    /\ now > 1

IncrementalInFlight == \E i \in 1..Len(inFlight) : inFlight[i].kind = "incremental"

\* The step being taken completes an incremental pass with a merge
Merging ==
    /\ last'.op = "checkNewEmails"
    /\ last'.resp.ok
    /\ Len(last'.resp.data) > 0

\* C17: two incremental passes in flight together that complete one right
\* after the other, in either order, each with a non-empty batch: the list
\* then holds every id of both batches and every id it held before.
C17_NoLostUpdate ==
    [][(Merged /\ Merging) =>
           (IdsOf(last.prevEmails) \cup IdsOf(last.resp.data) \cup IdsOf(last'.resp.data))
               \subseteq IdsOf(jobEmails')]_vars

C17_Witness ==
    /\ Merged
    /\ IncrementalInFlight
    /\ IdsOf(last.resp.data) \ IdsOf(last.prevEmails) # {}
    /\ IdsOf(last.prevEmails) \ IdsOf(last.resp.data) # {}
    /\ IdsOf(last.prevEmails) \cup IdsOf(last.resp.data) \subseteq IdsOf(jobEmails)

\* C18 (as claimed): after a full sync replaced the list or an incremental
\* pass merged into it, the stored copy is the list, also when the list is
\* now empty.
C18_PersistenceMirrors ==
    ((FullDone /\ last.resp.ok) \/ Merged) => localStorage.value = jobEmails

\* The step being taken completes a pass that sets the list
Changing ==
    /\ last'.op \in {"fetchEmails", "checkNewEmails"}
    /\ last'.resp.ok
    /\ (last'.op = "checkNewEmails" => Len(last'.resp.data) > 0)

\* What the persistence effect does keep: after such a change the stored copy
\* is the list when the list is not empty; when a full sync leaves the list
\* empty the stored copy stays what it was.
PersistenceMirrorsNonEmpty ==
    [][Changing =>
           IF Len(jobEmails') > 0
           THEN localStorage' = Stored(jobEmails')
           ELSE localStorage' = localStorage]_vars

\* ------------------------------------------------------------------------
\* The route handlers: messages, body extraction, classification
\* ------------------------------------------------------------------------
\* A text is the sequence of its words and punctuation marks, which white
\* space separates; '' is <<>>.  An optional value is <<>> when absent and
\* <<v>> when present.
Undefined == "<undefined>"

Some(v) == <<v>>

None == <<>>

SubjectValues == {<<>>, <<"Your", "application">>}

\* A From value: 'display <local@domain>' when angle, else the bare text.
\* The domain is the sequence of its labels, a label the sequence of its
\* '-'-separated words.
EmptyFrom == [display |-> "", angle |-> FALSE, local |-> "", domain |-> <<>>]

AcmeFrom ==
    [display |-> "Acme Careers", angle |-> TRUE, local |-> "jobs",
     domain |-> <<<<"acme", "careers">>, <<"com">>>>]

\* 'Talent Team <hr@careers.example.com>'
CareersFrom ==
    [display |-> "Talent Team", angle |-> TRUE, local |-> "hr",
     domain |-> <<<<"careers">>, <<"example">>, <<"com">>>>]

FromValues == {EmptyFrom, AcmeFrom, CareersFrom}

ValidDate == "Mon, 1 Jan 2024 10:00:00 +0000"

DateValues == {"", ValidDate, "next tuesday"}

\* "Unfortunately, thank you for your interest in the role"
RejectionText ==
    <<"Unfortunately", ",", "thank", "you", "for", "your", "interest", "in", "the", "role">>

BodyTexts ==
    {RejectionText,
     <<"Hello">>,
     <<"Thank", "you", "for", "applying">>,
     <<"Please", "schedule", "a", "call", ",", "thank", "you", "for", "applying">>,
     <<"Congratulations", "!">>}

HtmlText == <<"<p>Hello</p>">>

\* Inline content of a part: base64 of a text
Base64(text) == [b64 |-> text]

\* Buffer.from(data, 'base64').toString('utf8')
Buffer_from_base64(data) == data.b64

Part(mimeType, data) == [mimeType |-> mimeType, data |-> data]

Opt(S) == {None} \cup {Some(v) : v \in S}

\* payload.headers, by header name: the value of the first header of that
\* name, None when the list has none
NoHeaders == [Subject |-> None, From |-> None, Date |-> None]

HeaderLists == [Subject : Opt(SubjectValues), From : Opt(FromValues), Date : Opt(DateValues)]

NoPayload == [present |-> FALSE, headers |-> NoHeaders, mimeType |-> "", data |-> None,
              parts |-> None]

Bodies ==
    {[mimeType |-> "text/plain", data |-> Some(Base64(t)), parts |-> None] :
        t \in BodyTexts}
    \cup
    {[mimeType |-> "multipart/alternative", data |-> None,
      parts |-> Some(<<Part("text/plain", Some(Base64(<<"Hello">>))),
                       Part("text/html", Some(Base64(HtmlText)))>>)],
     \* two text/plain children around a text/html one
     [mimeType |-> "multipart/mixed", data |-> None,
      parts |-> Some(<<Part("text/plain", Some(Base64(<<"Thank", "you", "for", "applying">>))),
                       Part("text/html", Some(Base64(HtmlText))),
                       Part("text/plain", Some(Base64(<<"Hello">>)))>>)],
     \* a text/plain child without inline data, a nested multipart child
     [mimeType |-> "multipart/mixed", data |-> None,
      parts |-> Some(<<Part("text/plain", None),
                       Part("multipart/alternative", None),
                       Part("text/plain", Some(Base64(<<"Hello">>)))>>)],
     \* no text/plain child at all
     [mimeType |-> "multipart/alternative", data |-> None,
      parts |-> Some(<<Part("text/html", Some(Base64(HtmlText)))>>)],
     \* a text/html message without parts
     [mimeType |-> "text/html", data |-> Some(Base64(HtmlText)), parts |-> None],
     \* a text/plain part without inline data, with a child
     [mimeType |-> "text/plain", data |-> None,
      parts |-> Some(<<Part("text/plain", Some(Base64(<<"Hello">>)))>>)]}

Payloads ==
    {NoPayload} \cup
    {[present |-> TRUE, headers |-> h, mimeType |-> b.mimeType, data |-> b.data,
      parts |-> b.parts] : h \in HeaderLists, b \in Bodies}

\* details.data of users.messages.get for message id
RawMessages(id) == {[id |-> id, payload |-> pl] : pl \in Payloads}

RECURSIVE join(_, _)
join(texts, sep) ==
    IF Len(texts) = 0 THEN <<>>
    ELSE IF Len(texts) = 1 THEN texts[1]
    ELSE texts[1] \o sep \o join(Tail(texts), sep)

\* mutant: the children are joined whatever their media type
getEmailBodyAllParts(payload) ==
    IF ~payload.present THEN <<>>
    ELSE IF payload.mimeType = "text/plain" /\ payload.data # None
    THEN Buffer_from_base64(payload.data[1])
    ELSE IF payload.parts # None
    THEN LET all == payload.parts[1]
             decoded == [n \in 1..Len(all) |->
                            IF all[n].data # None
                            THEN Buffer_from_base64(all[n].data[1])
                            ELSE <<>>]
         IN  join(decoded, <<"\n">>)
    ELSE <<>>

\* getEmailBody
getEmailBody(payload) ==
    IF ~payload.present THEN <<>>
    ELSE IF payload.mimeType = "text/plain" /\ payload.data # None
    THEN Buffer_from_base64(payload.data[1])
    ELSE IF payload.parts # None
    THEN LET IsPlain(part) == part.mimeType = "text/plain"
             plain == SelectSeq(payload.parts[1], IsPlain)
             decoded == [n \in 1..Len(plain) |->
                            IF plain[n].data # None
                            THEN Buffer_from_base64(plain[n].data[1])
                            ELSE <<>>]
         IN  join(decoded, <<"\n">>)
    ELSE <<>>

\* headers.find(h => h.name === name)?.value
find(headers, name) == headers[name]

\* What the text-generation service does with the prompt: it rejects, or
\* answers a text; the text has no '{...}' span, a span that is no JSON, or
\* a span that parses to an object.  The object carries keys among the three
\* the prompt asks for (Undefined: the key is missing).
UndefinedText == <<Undefined>>

AIObjects ==
    {[companyName |-> <<"Acme">>, jobProfile |-> <<"Engineer">>,
      applicationStatus |-> "Interview"],
     [companyName |-> <<"Acme">>, jobProfile |-> <<"Engineer">>,
      applicationStatus |-> "Pending"],
     [companyName |-> UndefinedText, jobProfile |-> <<"Engineer">>,
      applicationStatus |-> "Offer"],
     [companyName |-> <<"Acme">>, jobProfile |-> <<>>,
      applicationStatus |-> "Rejected"]}

NoObject == [companyName |-> UndefinedText, jobProfile |-> UndefinedText,
             applicationStatus |-> Undefined]

AIReplies ==
    {[kind |-> k, object |-> NoObject] : k \in {"rejects", "noBraces", "notJson"}}
    \cup {[kind |-> "json", object |-> o] : o \in AIObjects}

\* analyzeEmailWithAI: the parsed object, None for the null of the catch
analyzeEmailWithAI(reply) ==
    IF reply.kind = "json" THEN Some(reply.object) ELSE None

\* new Date(date).getTime() in seconds: NaN for a text Date cannot parse
NaN == -1

Date_getTime(date) == IF date = ValidDate THEN 1704103200 ELSE NaN

\* toISOString(): a RangeError on an invalid date
RangeError == "RangeError: Invalid time value"

Date_toISOString(time) == IF time = NaN THEN RangeError ELSE "2024-01-01T10:00:00.000Z"

\* from.replace(/<[^>]+>/, '').trim()
stripAddress(from) ==
    IF from.angle THEN [display |-> from.display, angle |-> FALSE, local |-> "",
                        domain |-> <<>>]
    ELSE from

\* The outcome of one map callback: still pending, users.messages.get
\* rejected, the classifier threw, or it returned a record.
Pending == [state |-> "pending"]

GetFailed == [state |-> "getFailed"]

Threw(details, reply, err) ==
    [state |-> "threw", details |-> details, reply |-> reply, thrown |-> err]

Returned(details, reply, record) ==
    [state |-> "returned", details |-> details, reply |-> reply, record |-> record]

EmailInfo(id, ai, date, subject, from) ==
    [id |-> id, companyName |-> ai.companyName, jobProfile |-> ai.jobProfile,
     applicationStatus |-> ai.applicationStatus, date |-> date,
     originalSubject |-> subject, from |-> from]

\* The fallback of route.ts, lines 90-93
Fallback ==
    [companyName |-> <<"Unknown", "Company">>, jobProfile |-> <<"Unknown", "Position">>,
     applicationStatus |-> "Applied"]

OrElse(opt, default) == IF opt = None THEN default ELSE opt[1]

\* extractEmailInfo of route.ts
extractEmailInfo(details, reply) ==
    LET headers == IF details.payload.present THEN details.payload.headers ELSE NoHeaders
        subject == OrElse(find(headers, "Subject"), <<>>)
        from == OrElse(find(headers, "From"), EmptyFrom)
        date == OrElse(find(headers, "Date"), "")
        body == getEmailBody(details.payload)
        aiResult == analyzeEmailWithAI(reply)
        iso == IF date # "" THEN Date_toISOString(Date_getTime(date)) ELSE NoValue
    IN  IF iso = RangeError THEN Threw(details, reply, RangeError)
        ELSE IF aiResult # None
        THEN Returned(details, reply,
                      EmailInfo(details.id, aiResult[1], iso, subject, stripAddress(from)))
        ELSE Returned(details, reply,
                      EmailInfo(details.id, Fallback, iso, subject, stripAddress(from)))

\* new/route.ts, line 39: the file neither defines nor imports
\* extractEmailInfo, so the call throws a ReferenceError
ReferenceError == "ReferenceError: extractEmailInfo is not defined"

newRouteExtractEmailInfo(details, reply) == Threw(details, reply, ReferenceError)

NoResponse == [status |-> 0, body |-> <<>>, error |-> NoValue]

Json(body) == [status |-> 200, body |-> body, error |-> NoValue]

JsonError(err, status) == [status |-> status, body |-> <<>>, error |-> err]

NoCalls == [list |-> 0, get |-> 0, ai |-> 0]

Endpoints == {"GET /api/gmail", "POST /api/gmail/new"}

\* The lists users.messages.list can answer: each message once
RECURSIVE Perms(_)
Perms(S) ==
    IF S = {} THEN {<<>>}
    ELSE UNION {{<<x>> \o p : p \in Perms(S \ {x})} : x \in S}

MessageLists == UNION {Perms(S) : S \in SUBSET Ids}

\* mutant: the handler goes on without a token
sessionUnchecked(accessToken) == TRUE

\* session?.accessToken is set
sessionAccessToken(accessToken) == accessToken

\* The handler up to its session check
Receive(endpoint, accessToken, time) ==
    /\ rpc \in {"idle", "responded"}
    /\ request' = [endpoint |-> endpoint, accessToken |-> accessToken,
                   lastFetchTime |-> IF endpoint = "GET /api/gmail" THEN 0 ELSE time]
    /\ messages' = <<>>
    /\ results' = <<>>
    /\ calls' = NoCalls
    /\ IF ~sessionAccessToken(accessToken)
       THEN /\ response' = JsonError("Not authenticated", 401)
            /\ rpc' = "responded"
       ELSE /\ response' = NoResponse
            /\ rpc' = "listing"
    /\ UNCHANGED notRouteVars

ListError ==
    IF request.endpoint = "GET /api/gmail" THEN "Failed to fetch emails"
    ELSE "Failed to fetch new emails"

\* gmail.users.messages.list answers or rejects
List(ok, list) ==
    /\ rpc = "listing"
    /\ calls' = [calls EXCEPT !.list = @ + 1]
    /\ IF ~ok
       THEN /\ response' = JsonError(ListError, 500)
            /\ rpc' = "responded"
            /\ UNCHANGED <<messages, results>>
       ELSE IF Len(list) = 0
       THEN /\ response' = Json(<<>>)
            /\ rpc' = "responded"
            /\ UNCHANGED <<messages, results>>
       ELSE /\ messages' = list
            /\ results' = [n \in 1..Len(list) |-> Pending]
            /\ rpc' = "fetching"
            /\ UNCHANGED response
    /\ UNCHANGED request
    /\ UNCHANGED notRouteVars

\* The messages and AI replies the handlers are run on: a message without
\* payload, and messages with every header and a one-part body, their Date
\* well-formed or not
RouteDetails(id) ==
    {d \in RawMessages(id) :
        \/ ~d.payload.present
        \/ /\ d.payload.headers.Subject = Some(<<"Your", "application">>)
           /\ d.payload.headers.From = Some(AcmeFrom)
           /\ d.payload.headers.Date \in {Some(ValidDate), Some("next tuesday")}
           /\ d.payload.data = Some(Base64(<<"Hello">>))}

RouteReplies ==
    {r \in AIReplies : r.kind \in {"rejects", "json"}}

NoReply == [kind |-> "none", object |-> NoObject]

PendingIn(res) == {n \in 1..Len(res) : res[n] = Pending}

\* One map callback: users.messages.get, then the classifier
Detail(n, ok, details, reply) ==
    /\ rpc = "fetching"
    /\ results[n] = Pending
    /\ details.id = messages[n]
    /\ (~ok \/ request.endpoint # "GET /api/gmail") => reply = NoReply
    /\ (ok /\ request.endpoint = "GET /api/gmail") => reply # NoReply
    /\ IF ~ok
       THEN /\ results' = [results EXCEPT ![n] = GetFailed]
            /\ calls' = [calls EXCEPT !.get = @ + 1]
       ELSE IF request.endpoint = "GET /api/gmail"
       THEN /\ results' = [results EXCEPT ![n] = extractEmailInfo(details, reply)]
            /\ calls' = [calls EXCEPT !.get = @ + 1, !.ai = @ + 1]
       ELSE /\ results' = [results EXCEPT ![n] = newRouteExtractEmailInfo(details, reply)]
            /\ calls' = [calls EXCEPT !.get = @ + 1]
    /\ UNCHANGED <<rpc, request, messages, response>>
    /\ UNCHANGED notRouteVars

Rejected(n) == results[n].state \in {"getFailed", "threw"}

\* await Promise.all(...) settles: the array, or the catch block's 500
Respond ==
    /\ rpc = "fetching"
    /\ IF \E n \in 1..Len(results) : Rejected(n)
       THEN response' = JsonError(ListError, 500)
       ELSE /\ \A n \in 1..Len(results) : results[n].state = "returned"
            /\ response' = Json([n \in 1..Len(results) |-> results[n].record])
    /\ rpc' = "responded"
    /\ UNCHANGED <<request, messages, results, calls>>
    /\ UNCHANGED notRouteVars

NextRoute ==
    \/ \E endpoint \in Endpoints, accessToken \in BOOLEAN, time \in 0..MaxTime :
           Receive(endpoint, accessToken, time)
    \/ \E ok \in BOOLEAN, list \in MessageLists : List(ok, list)
    \/ \E n \in PendingIn(results), ok \in BOOLEAN :
           \E details \in RouteDetails(messages[n]), reply \in RouteReplies \cup {NoReply} :
               Detail(n, ok, details, reply)
    \/ Respond

SpecRoute == Init /\ [][NextRoute]_vars

\* ------------------------------------------------------------------------
\* The regex-based classifier (the route file with the full fallback)
\* ------------------------------------------------------------------------
\* String.prototype.toLowerCase, word by word
LowerWord(w) ==
    CASE w = "Unfortunately" -> "unfortunately"
      [] w = "Your" -> "your"
      [] w = "Hello" -> "hello"
      [] w = "Thank" -> "thank"
      [] w = "Please" -> "please"
      [] w = "Congratulations" -> "congratulations"
      [] OTHER -> w

toLowerCase(text) == [n \in 1..Len(text) |-> LowerWord(text[n])]

\* subject + ' ' + body
Concat(subject, body) == subject \o body

\* A pattern is the set of the word sequences its alternatives spell (\s+ is
\* the gap between two words); it matches a text that holds one of them.
Holds(text, phrase) ==
    \E n \in 1..(Len(text) - Len(phrase) + 1) :
        SubSeq(text, n, n + Len(phrase) - 1) = phrase

test(pattern, text) == \E phrase \in pattern : Holds(toLowerCase(text), phrase)

\* statusPatterns, in the order of its keys
statusPatterns ==
    << [status |-> "Rejected",
        patterns |->
          << {<<"regret">>, <<"unfortunately">>, <<"not", "moving", "forward">>,
              <<"not", "selected">>, <<"not", "proceed">>, <<"unsuccessful">>},
             {<<"thank", "you", "for", "your", "interest">>},
             {<<"other", "candidates">>, <<"better", "suited">>,
              <<"not", "the", "best", "fit">>} >>],
       [status |-> "Interview",
        patterns |->
          << {<<"interview">>, <<"next", "steps">>, <<"move", "forward">>,
              <<"schedule", "a", "call">>},
             {<<"technical", "round">>, <<"technical", "assessment">>,
              <<"technical", "challenge">>, <<"coding", "challenge">>},
             {<<"available", "for", "chat">>, <<"available", "for", "call">>,
              <<"available", "for", "meeting">>, <<"available", "for", "a", "chat">>,
              <<"available", "for", "a", "call">>,
              <<"available", "for", "a", "meeting">>} >>],
       [status |-> "Offer",
        patterns |->
          << {<<"offer">>, <<"congratulations">>, <<"welcome", "aboard">>,
              <<"joining">>, <<"start", "date">>},
             {<<"pleased", "to", "offer">>, <<"pleased", "to", "inform">>,
              <<"formal", "offer">>} >>],
       [status |-> "Application Received",
        patterns |->
          << {<<v, "application">> :
                  v \in {"received", "confirmed", "submitted", "reviewing", "processing"}}
             \cup {<<v, "your", "application">> :
                  v \in {"received", "confirmed", "submitted", "reviewing", "processing"}},
             {<<"thank", "you", "for", "applying">>,
              <<"thank", "you", "for", "your", "application">>,
              <<"thank", "you", "for", "your", "interest">>},
             {<<"application", "confirmation">>, <<"application", "received">>,
              <<"application", "submitted">>} >> ] >>

some(patterns, text) == \E n \in 1..Len(patterns) : test(patterns[n], text)

\* mutant: Application Received is looked at before Rejected
statusOfReceivedFirst(combinedText) ==
    IF some(statusPatterns[4].patterns, combinedText) THEN "Application Received"
    ELSE IF some(statusPatterns[1].patterns, combinedText) THEN "Rejected"
    ELSE IF some(statusPatterns[2].patterns, combinedText) THEN "Interview"
    ELSE IF some(statusPatterns[3].patterns, combinedText) THEN "Offer"
    ELSE "Applied"

\* The loop over Object.entries(statusPatterns): the first status one of
\* whose patterns matches, 'Applied' when none does
statusOf(combinedText) ==
    LET hits == {n \in 1..Len(statusPatterns) :
                    some(statusPatterns[n].patterns, combinedText)}
    IN  IF hits = {} THEN "Applied"
        ELSE statusPatterns[CHOOSE n \in hits : \A m \in hits : n <= m].status

Min(S) == CHOOSE n \in S : \A m \in S : n <= m

Max(S) == CHOOSE n \in S : \A m \in S : n >= m

\* White space is the gap between words; the '\n' that joins body parts is
\* a word of its own.
Words(text) == LET NotNewline(w) == w # "\n" IN SelectSeq(text, NotNewline)

\* [A-Za-z0-9\s&\.]
CompanyClass(w) == w \notin {",", "!", "?", ":", "-", "|", "@"}

\* [^-|@\n.]
RoleClass(w) == w \notin {"-", "|", "@", "\n", "."}

Dash(w) == w \in {"-", "|"}

Lower(w, S) == LowerWord(w) \in S

\* A lazy group from word `from` on: the shortest run of class words that
\* the terminator follows (or the end of the text, when atEnd); 0 for none
Lazy(w, from, Class(_), Term(_), atEnd) ==
    LET ends == {j \in from..Len(w) :
                    /\ \A k \in from..j : Class(w[k])
                    /\ \/ atEnd /\ j = Len(w)
                       \/ j < Len(w) /\ Term(w[j + 1])}
    IN  IF ends = {} THEN 0 ELSE Min(ends)

\* A greedy group from word `from` on: the longest run of class words
Greedy(w, from, Class(_)) ==
    LET ends == {j \in from..Len(w) : \A k \in from..j : Class(w[k])}
    IN  IF ends = {} THEN 0 ELSE Max(ends)

\* The capture of the leftmost start in `starts` whose group (ending at
\* End(start), beginning `skip` words after the start) matches
Capture(w, starts, skip, End(_)) ==
    LET ok == {n \in starts : End(n) # 0}
    IN  IF ok = {} THEN None
        ELSE LET n == Min(ok) IN Some(SubSeq(w, n + skip, End(n)))

\* companyPatterns[0]: (at|@|from) name (for|position|role|about|regarding|$)
companyPattern1(w) ==
    LET Term(x) == Lower(x, {"for", "position", "role", "about", "regarding"})
        End(n) == Lazy(w, n + 1, CompanyClass, Term, TRUE)
    IN  Capture(w, {n \in 1..Len(w) : Lower(w[n], {"at", "@", "from"})}, 1, End)

\* companyPatterns[1]: from the start of the text up to a dash, a pipe or
\* the end.  The text always holds the ' ' between subject and body: with no
\* word at all, or an empty subject before a dash, the group is that blank.
companyPattern2(w, blankFirst) ==
    IF Len(w) = 0 \/ (blankFirst /\ Dash(w[1])) THEN Some(<<>>)
    ELSE LET end == Lazy(w, 1, CompanyClass, Dash, TRUE)
         IN  IF end = 0 THEN None ELSE Some(SubSeq(w, 1, end))

\* companyPatterns[2]: name (Careers|Jobs|Hiring|Recruitment)
companyPattern3(w) ==
    LET Term(x) == Lower(x, {"careers", "jobs", "hiring", "recruitment"})
        End(n) == Lazy(w, n, CompanyClass, Term, FALSE)
    IN  Capture(w, 1..Len(w), 0, End)

\* companyPatterns[3]: platform on behalf of name
companyPattern4(w) ==
    LET starts == {n \in 1..(Len(w) - 3) :
                      /\ Lower(w[n], {"workday", "greenhouse", "lever", "indeed", "linkedin"})
                      /\ toLowerCase(SubSeq(w, n + 1, n + 3)) = <<"on", "behalf", "of">>}
        End(n) == Greedy(w, n + 4, CompanyClass)
    IN  Capture(w, starts, 4, End)

\* companyPatterns[4]: (welcome to|joining|application at|with|for) name
\* (team|.|!)
companyPattern5(w) ==
    LET Term(x) == Lower(x, {"team", ".", "!"})
        one == {n \in 1..Len(w) : Lower(w[n], {"joining"})}
        two == {n \in 1..(Len(w) - 1) :
                   \/ toLowerCase(SubSeq(w, n, n + 1)) = <<"welcome", "to">>
                   \/ /\ Lower(w[n], {"application"})
                      /\ Lower(w[n + 1], {"at", "with", "for"})}
        Skip(n) == IF n \in two THEN 2 ELSE 1
        End(n) == Lazy(w, n + Skip(n), CompanyClass, Term, FALSE)
        ok == {n \in one \cup two : End(n) # 0}
    IN  IF ok = {} THEN None
        ELSE LET n == Min(ok) IN Some(SubSeq(w, n + Skip(n), End(n)))

\* The loop over companyPatterns: the first capture, trimmed
companyFromPatterns(subject, body) ==
    LET w == Words(Concat(subject, body))
        captures == <<companyPattern1(w), companyPattern2(w, subject = <<>>),
                      companyPattern3(w), companyPattern4(w), companyPattern5(w)>>
        hits == {n \in 1..Len(captures) : captures[n] # None}
    IN  IF hits = {} THEN None ELSE captures[Min(hits)]

\* word.charAt(0).toUpperCase() + word.slice(1)
Capitalize(word) ==
    CASE word = "acme" -> "Acme"
      [] word = "example" -> "Example"
      [] word = "com" -> "Com"
      [] OTHER -> word

\* companyDomain.replace(/(?:careers|jobs|hr|recruiting|talent)/i, ''): the
\* first such word of the label becomes ''
stripRecruiting(label) ==
    LET hits == {n \in 1..Len(label) :
                    Lower(label[n], {"careers", "jobs", "hr", "recruiting", "talent"})}
    IN  IF hits = {} THEN label ELSE [label EXCEPT ![Min(hits)] = ""]

\* .split(/[.-]/).map(capitalize).join(' ').trim(), as a text
companyFromDomain(label) ==
    LET NotEmpty(word) == word # ""
        parts == stripRecruiting(label)
    IN  SelectSeq([n \in 1..Len(parts) |-> Capitalize(parts[n])], NotEmpty)

\* from.match(/@([^>]+)>/)?.[1] || '', then .split('.')[0]
companyDomain(from) ==
    IF from.angle /\ Len(from.domain) > 0 THEN from.domain[1] ELSE <<>>

UnknownCompany == <<"Unknown", "Company">>

UnknownPosition == <<"Unknown", "Position">>

\* companyName of the regex-based classifier
companyName(subject, body, from) ==
    LET match == companyFromPatterns(subject, body)
        name == IF match # None THEN match[1] ELSE UnknownCompany
    IN  IF name = UnknownCompany /\ companyDomain(from) # <<>>
        THEN companyFromDomain(companyDomain(from))
        ELSE name

\* The first word at or after `from` that is no line break
SkipNewlines(t, from) ==
    LET rest == {k \in from..Len(t) : t[k] # "\n"}
    IN  IF rest = {} THEN Len(t) + 1 ELSE Min(rest)

At(x) == Lower(x, {"at"})

\* rolePatterns[0]: (for|position:|role:) title (at|$)
rolePattern1(t) ==
    LET one == {n \in 1..Len(t) : Lower(t[n], {"for"})}
        two == {n \in 1..(Len(t) - 1) :
                   Lower(t[n], {"position", "role"}) /\ t[n + 1] = ":"}
        Begin(n) == SkipNewlines(t, IF n \in two THEN n + 2 ELSE n + 1)
        End(n) == Lazy(t, Begin(n), RoleClass, At, TRUE)
        ok == {n \in one \cup two : End(n) # 0}
    IN  IF ok = {} THEN None
        ELSE LET n == Min(ok) IN Some(SubSeq(t, Begin(n), End(n)))

\* rolePatterns[1]: (dash or pipe) title (at|$)
rolePattern2(t) ==
    LET Begin(n) == SkipNewlines(t, n + 1)
        End(n) == Lazy(t, Begin(n), RoleClass, At, TRUE)
        ok == {n \in 1..Len(t) : Dash(t[n]) /\ End(n) # 0}
    IN  IF ok = {} THEN None
        ELSE LET n == Min(ok) IN Some(SubSeq(t, Begin(n), End(n)))

\* rolePatterns[2] has no capturing group: match?.[1] is undefined
rolePattern3(t) == None

NotComma(x) == x \notin {",", "\n"}

NotCommaDot(x) == x \notin {",", "\n", "."}

\* rolePatterns[3]: (position|role|job) (of|as) title
rolePattern4(t) ==
    LET Begin(n) == SkipNewlines(t, n + 2)
        End(n) == Greedy(t, Begin(n), NotComma)
        ok == {n \in 1..(Len(t) - 1) :
                  /\ Lower(t[n], {"position", "role", "job"})
                  /\ Lower(t[n + 1], {"of", "as"})
                  /\ End(n) # 0}
    IN  IF ok = {} THEN None
        ELSE LET n == Min(ok) IN Some(SubSeq(t, Begin(n), End(n)))

\* rolePatterns[4]: applying for [the] [role of] title; an optional part
\* is taken when the title can still follow it
rolePattern5(t) ==
    LET Is(k, phrase) ==
            /\ k + Len(phrase) - 1 <= Len(t)
            /\ toLowerCase(SubSeq(t, k, k + Len(phrase) - 1)) = phrase
        skips == << <<"the", "role", "of">>, <<"the">>, <<"role", "of">>, <<>> >>
        Fits(n, s) == /\ Is(n + 2, skips[s])
                      /\ Greedy(t, n + 2 + Len(skips[s]), NotCommaDot) # 0
        Begin(n) == n + 2 + Len(skips[Min({s \in 1..4 : Fits(n, s)})])
        ok == {n \in 1..(Len(t) - 1) :
                  /\ Is(n, <<"applying", "for">>)
                  /\ \E s \in 1..4 : Fits(n, s)}
    IN  IF ok = {} THEN None
        ELSE LET n == Min(ok)
             IN  Some(SubSeq(t, Begin(n), Greedy(t, Begin(n), NotCommaDot)))

\* rolePatterns[5]: position: title
rolePattern6(t) ==
    LET Begin(n) == SkipNewlines(t, n + 2)
        End(n) == Greedy(t, Begin(n), NotCommaDot)
        ok == {n \in 1..(Len(t) - 1) :
                  Lower(t[n], {"position"}) /\ t[n + 1] = ":" /\ End(n) # 0}
    IN  IF ok = {} THEN None
        ELSE LET n == Min(ok) IN Some(SubSeq(t, Begin(n), End(n)))

\* jobProfile of the regex-based classifier: the first capture, trimmed
jobProfile(subject, body) ==
    LET t == Concat(subject, body)
        captures == <<rolePattern1(t), rolePattern2(t), rolePattern3(t),
                      rolePattern4(t), rolePattern5(t), rolePattern6(t)>>
        hits == {n \in 1..Len(captures) : captures[n] # None}
    IN  IF hits = {} THEN UnknownPosition ELSE Words(captures[Min(hits)][1])

\* extractEmailInfo of the regex-based route file
extractEmailInfoWithRegex(details, reply) ==
    LET headers == IF details.payload.present THEN details.payload.headers ELSE NoHeaders
        subject == OrElse(find(headers, "Subject"), <<>>)
        from == OrElse(find(headers, "From"), EmptyFrom)
        date == OrElse(find(headers, "Date"), "")
        body == getEmailBody(details.payload)
        aiResult == analyzeEmailWithAI(reply)
        iso == IF date # "" THEN Date_toISOString(Date_getTime(date)) ELSE NoValue
        regex == [companyName |-> companyName(subject, body, from),
                  jobProfile |-> jobProfile(subject, body),
                  applicationStatus |-> statusOf(Concat(subject, body))]
    IN  IF iso = RangeError THEN Threw(details, reply, RangeError)
        ELSE IF aiResult # None
        THEN Returned(details, reply,
                      EmailInfo(details.id, aiResult[1], iso, subject, stripAddress(from)))
        ELSE Returned(details, reply,
                      EmailInfo(details.id, regex, iso, subject, stripAddress(from)))

\* ------------------------------------------------------------------------
\* The classifier as a function: one message, one AI reply
\* ------------------------------------------------------------------------
Input(details, reply) == [state |-> "input", details |-> details, reply |-> reply]

InitClassify ==
    /\ InitPage
    /\ InitRoute
    /\ InitMail
    /\ classified \in {Input(d, r) : d \in RawMessages(1), r \in AIReplies}

\* extractEmailInfo of route.ts applied to the message
Classify ==
    /\ classified.state = "input"
    /\ classified' = [by |-> "route.ts",
                       body |-> getEmailBody(classified.details.payload)] @@
                      extractEmailInfo(classified.details, classified.reply)
    /\ UNCHANGED <<pageVars, routeVars, mailVars>>

\* extractEmailInfo of the regex-based route file applied to the message
ClassifyWithRegex ==
    /\ classified.state = "input"
    /\ classified' = [by |-> "regex",
                       body |-> getEmailBody(classified.details.payload)] @@
                      extractEmailInfoWithRegex(classified.details, classified.reply)
    /\ UNCHANGED <<pageVars, routeVars, mailVars>>

NextClassify ==
    \/ Classify
    \/ ClassifyWithRegex

SpecClassify == InitClassify /\ [][NextClassify]_vars

\* ------------------------------------------------------------------------
\* Properties of the classifier (checked under SpecClassify)
\* ------------------------------------------------------------------------
Done(by) == classified.state \in {"returned", "threw"} /\ classified.by = by

AIFailed == classified.reply.kind # "json"

DateHeader == IF classified.details.payload.present
              THEN classified.details.payload.headers.Date ELSE None

Statuses == {"Applied", "Application Received", "Interview", "Rejected", "Offer"}

Classified == classified.state \in {"returned", "threw"}

SubjectOf(details) ==
    IF details.payload.present THEN OrElse(details.payload.headers.Subject, <<>>)
    ELSE <<>>

\* C5 (as claimed): with the AI classifier failing, the classifier returns a
\* record for every message and never throws; a Date header that is absent,
\* empty or unparsable gives date = null.
C5_FallbackTotal ==
    (Classified /\ AIFailed) =>
        /\ classified.state = "returned"
        /\ DateHeader # Some(ValidDate) => classified.record.date = NoValue

\* C6 (as claimed): every record the classifier returns, on the AI path or
\* the fallback path, has applicationStatus in the closed enumeration.
C6_StatusEnumeration ==
    classified.state = "returned" => classified.record.applicationStatus \in Statuses

\* C9 (as claimed): every record the classifier returns has a non-empty
\* companyName and a non-empty jobProfile.
C9_NonEmptyNames ==
    classified.state = "returned" =>
        /\ classified.record.companyName \notin {<<>>, UndefinedText}
        /\ classified.record.jobProfile \notin {<<>>, UndefinedText}

\* C10 (as claimed): on the fallback path of the served classifier the
\* status is the first of Rejected, Interview, Offer, Application Received
\* with a pattern matching subject + ' ' + body, Applied when none matches.
C10_StatusPriority ==
    (Done("route.ts") /\ classified.state = "returned" /\ AIFailed) =>
        classified.record.applicationStatus =
            statusOf(Concat(SubjectOf(classified.details),
                            getEmailBody(classified.details.payload)))

\* The same statement for the regex-based route file, whose fallback runs
\* statusPatterns: there it holds.
RegexStatusPriority ==
    (Done("regex") /\ classified.state = "returned" /\ AIFailed) =>
        /\ classified.record.applicationStatus =
               statusOf(Concat(SubjectOf(classified.details),
                               getEmailBody(classified.details.payload)))
        /\ getEmailBody(classified.details.payload) = RejectionText =>
               classified.record.applicationStatus = "Rejected"

\* The text/plain children of a part, decoded, in child order
RECURSIVE PlainTexts(_)
PlainTexts(parts) ==
    IF parts = <<>> THEN <<>>
    ELSE LET rest == PlainTexts(Tail(parts))
             text == IF Head(parts).data = None THEN <<>> ELSE Head(parts).data[1].b64
         IN  IF Head(parts).mimeType = "text/plain" THEN <<text>> \o rest ELSE rest

RECURSIVE NewlineJoined(_)
NewlineJoined(texts) ==
    IF texts = <<>> THEN <<>>
    ELSE IF Len(texts) = 1 THEN texts[1]
    ELSE texts[1] \o <<"\n">> \o NewlineJoined(Tail(texts))

HelloAndHtml ==
    Some(<<Part("text/plain", Some(Base64(<<"Hello">>))),
           Part("text/html", Some(Base64(HtmlText)))>>)

\* C12: the body the classifier extracts is '' for an absent payload, the
\* decoded content of a text/plain payload with inline data, otherwise the
\* decoded text/plain children joined by newlines in child order, other
\* children contributing nothing; one text/plain 'Hello' child and one
\* text/html child give exactly 'Hello'.
C12_BodyExtraction ==
    Classified =>
        LET payload == classified.details.payload
        IN  /\ ~payload.present => classified.body = <<>>
            /\ (payload.present /\ payload.mimeType = "text/plain" /\ payload.data # None)
                   => classified.body = payload.data[1].b64
            /\ (payload.present /\ ~(payload.mimeType = "text/plain" /\ payload.data # None))
                   => classified.body =
                          IF payload.parts = None THEN <<>>
                          ELSE NewlineJoined(PlainTexts(payload.parts[1]))
            /\ (payload.present /\ payload.parts = HelloAndHtml)
                   => classified.body = <<"Hello">>

C12_Witness ==
    /\ Classified
    /\ classified.details.payload.present
    /\ classified.details.payload.parts = HelloAndHtml
    /\ classified.body = <<"Hello">>

\* ------------------------------------------------------------------------
\* Properties of the route handlers (checked under SpecRoute)
\* ------------------------------------------------------------------------
\* The dates Date can parse
Classifiable(details) ==
    ~details.payload.present \/ details.payload.headers.Date # Some("next tuesday")

\* C7 (as claimed): an authenticated POST /api/gmail/new whose list call and
\* detail fetches all succeeded, on messages the classifier accepts, answers
\* 200 with one record per listed message, carrying that message's id.
C7_IncrementalResult ==
    (/\ rpc = "responded"
     /\ request.endpoint = "POST /api/gmail/new"
     /\ request.accessToken
     /\ Len(messages) > 0
     /\ \A n \in 1..Len(results) :
            /\ results[n].state \in {"returned", "threw"}
            /\ Classifiable(results[n].details))
    => /\ response.status = 200
       /\ Len(response.body) = Len(messages)
       /\ \A n \in 1..Len(messages) : response.body[n].id = messages[n]

\* C13: a request whose session carries no access token is answered 401
\* with an error body, by either endpoint, without any provider list or get
\* call and without any AI call.
C13_NotAuthenticated ==
    (rpc # "idle" /\ ~request.accessToken) =>
        /\ rpc = "responded"
        /\ response = JsonError("Not authenticated", 401)
        /\ calls = NoCalls
        /\ messages = <<>>
        /\ results = <<>>

C13_Witness ==
    /\ rpc = "responded"
    /\ ~request.accessToken
    /\ request.endpoint = "POST /api/gmail/new"
    /\ response.status = 401
    /\ calls = NoCalls

\* The record of the heuristic path, whichever route file classified
HeuristicRecord ==
    /\ classified.state = "returned"
    /\ classified.record.id = classified.details.id
    /\ classified.record.originalSubject = SubjectOf(classified.details)
    /\ classified.record.date =
           (IF DateHeader \in {None, Some("")} THEN NoValue ELSE "2024-01-01T10:00:00.000Z")
    /\ classified.by = "route.ts" =>
           /\ classified.record.companyName = Fallback.companyName
           /\ classified.record.jobProfile = Fallback.jobProfile
           /\ classified.record.applicationStatus = Fallback.applicationStatus
    /\ classified.by = "regex" =>
           classified.record.applicationStatus =
               statusOf(Concat(SubjectOf(classified.details), classified.body))

\* C15 (as claimed): whenever the AI classification fails (the call rejects,
\* the text has no {...} span, or the span is no JSON) the classifier still
\* returns a record, built on the heuristic path with the id, date and
\* subject of the message's headers, and nothing is thrown.
C15_AIFailureContained ==
    (Classified /\ AIFailed) => HeuristicRecord

\* The same statement for the messages whose Date header is absent, empty
\* or well-formed: there it holds.
AIFailureContainedOnParsableDates ==
    (Classified /\ AIFailed /\ DateHeader # Some("next tuesday")) => HeuristicRecord

\* ------------------------------------------------------------------------
\* The page, the endpoints and the mailbox together: what an endpoint
\* answers is what its list query found in the mailbox.  A message arrives
\* at a time of its own (the clock moves on, then stamps it), so a message
\* stamped t arrived before every later step that reads `now` = t.
\* ------------------------------------------------------------------------
Message(id, arrived) == [id |-> id, arrived |-> arrived]

MailboxIds == {m.id : m \in mailbox}

\* A keyword-matching message arrives in the mailbox.
Arrive(id) ==
    /\ id \notin MailboxIds
    /\ now < MaxTime
    /\ now' = now + 1
    /\ mailbox' = mailbox \cup {Message(id, now')}
    /\ last' = [op |-> "arrive"]
    /\ UNCHANGED <<session, jobEmails, loading, initialLoading, lastFetchTime, error,
                   localStorage, inFlight, tickLoading, tickLastFetchTime>>
    /\ UNCHANGED listed
    /\ UNCHANGED notPageVars

\* The provider lists the newest message first.
RECURSIVE NewestFirst(_)
NewestFirst(msgs) ==
    IF msgs = {} THEN <<>>
    ELSE LET m == CHOOSE x \in msgs : \A y \in msgs : y.arrived <= x.arrived
         IN  <<m.id>> \o NewestFirst(msgs \ {m})

\* q of GET: the keywords; q of POST: the keywords and after:afterDate
Query(req) ==
    IF req.kind = "full" THEN mailbox
    ELSE {m \in mailbox : m.arrived > req.lastFetchTime}

ListAnswer(ok, ids) == [ok |-> ok, ids |-> ids]

\* The handler of request i runs users.messages.list, which answers or rejects.
MessagesList(i, ok) ==
    /\ listed[i] = None
    /\ LET ids == IF ok THEN NewestFirst(Query(inFlight[i])) ELSE <<>>
       IN  /\ listed' = [listed EXCEPT ![i] = Some(ListAnswer(ok, ids))]
           /\ last' = [op |-> "list", kind |-> inFlight[i].kind, ok |-> ok, ids |-> ids]
    /\ UNCHANGED <<session, jobEmails, loading, initialLoading, lastFetchTime, error,
                   localStorage, now, inFlight, tickLoading, tickLastFetchTime>>
    /\ UNCHANGED mailbox
    /\ UNCHANGED notPageVars

\* What GET /api/gmail answers after its list call: 500 when the call
\* rejected, [] for an empty list, else one record per listed message, or
\* 500 when a detail fetch or a classification rejected.
FullAnswers(i) ==
    IF listed[i] = None THEN {}
    ELSE LET l == listed[i][1]
         IN  IF ~l.ok THEN {Failed("http500")}
             ELSE IF Len(l.ids) = 0 THEN {Ok(<<>>)}
             ELSE {Ok([n \in 1..Len(l.ids) |->
                          [id |-> l.ids[n], applicationStatus |-> st[n]]]) :
                       st \in [1..Len(l.ids) -> PageStatuses]}
                  \cup {Failed("http500")}

\* What POST /api/gmail/new answers after its list call: for a non-empty
\* list every map callback throws, hence 500.
IncrementalAnswers(i) ==
    IF listed[i] = None THEN {}
    ELSE LET l == listed[i][1]
             thrown(id) == newRouteExtractEmailInfo([id |-> id, payload |-> NoPayload],
                                                    NoReply).state = "threw"
         IN  IF ~l.ok THEN {Failed("http500")}
             ELSE IF Len(l.ids) = 0 THEN {Ok(<<>>)}
             ELSE IF \E n \in 1..Len(l.ids) : thrown(l.ids[n]) THEN {Failed("http500")}
             ELSE {Ok([n \in 1..Len(l.ids) |->
                          [id |-> l.ids[n], applicationStatus |-> "Applied"]])}

NextMailbox ==
    \/ \E id \in Ids : Arrive(id)
    \/ SignIn /\ listed' = Append(listed, None) /\ UNCHANGED mailbox
    \/ Refresh /\ listed' = Append(listed, None) /\ UNCHANGED mailbox
    \/ /\ PollTick
       /\ listed' = (IF Len(inFlight') > Len(inFlight) THEN Append(listed, None) ELSE listed)
       /\ UNCHANGED mailbox
    \/ \E i \in 1..Len(inFlight), ok \in BOOLEAN : MessagesList(i, ok)
    \/ \E i \in 1..Len(inFlight) : \E resp \in FullAnswers(i) :
           FetchEmailsDone(i, resp) /\ listed' = Remove(listed, i) /\ UNCHANGED mailbox
    \/ \E i \in 1..Len(inFlight) : \E resp \in IncrementalAnswers(i) :
           CheckNewEmailsDone(i, resp) /\ listed' = Remove(listed, i) /\ UNCHANGED mailbox
    \/ Tick /\ UNCHANGED mailVars
    \/ Reload /\ listed' = <<>> /\ UNCHANGED mailbox

SpecMailbox == Init /\ [][NextMailbox]_vars

\* ------------------------------------------------------------------------
\* Properties of the sync loop (checked under SpecMailbox)
\* ------------------------------------------------------------------------
\* C14 (as claimed): no mail is lost between passes: when the list query of
\* an incremental pass has answered, every message of the mailbox is either
\* in the list of records already or among the messages the query returned,
\* in particular a message that arrived while the previous pass was running.
C14_NoMailLost ==
    (last.op = "list" /\ last.kind = "incremental" /\ last.ok) =>
        \A m \in mailbox :
            \/ m.id \in IdsOf(jobEmails)
            \/ \E n \in 1..Len(last.ids) : last.ids[n] = m.id

====
